---- MODULE Spec2Model ----
(***************************************************************************)
(* The Monte Carlo tree searcher of src/mcts.py: the three statistics maps *)
(* Q, N and children, and the operations choose and rollout, the latter    *)
(* with its four phases select, expand, simulate and backpropagate taken   *)
(* one loop iteration at a time.                                           *)
(*                                                                         *)
(* Rewards are counted in halves, so that 0, 0.5 and 1 are the integers    *)
(* 0, 1 and 2 and "1 - reward" is "One - reward".  Game states are the     *)
(* integers 1..n of a small game graph.                                    *)
(***************************************************************************)
EXTENDS Integers, Sequences, FiniteSets, TLC

\* The number of rollout calls a behaviour makes.
MaxRollouts == 4
\* The longest path select builds before the model stops following it
\* (select never returns on a move cycle whose states are all expanded).
MaxPath == 5
\* The number of moves of a playout the model follows (simulate's walk is
\* unbounded on a move cycle).
MaxSteps == 4

\* The literal 1 of "1 - reward" (mcts.py:64, :73), in halves.
One == 2

VARIABLES
    find_children,      \* Node.find_children of the game played: state -> set of states
    node_reward,        \* Node.reward of the game played: state -> reward in halves
    iteration,          \* the order in which a set of nodes is iterated
    exploration_weight, \* self.exploration_weight
    Q,                  \* self.Q, a defaultdict: only the keys ever read or written
    N,                  \* self.N, a defaultdict
    children,           \* self.children, a dict
    pc,                 \* the phase of the rollout in progress, or "idle"
    node,               \* the local `node` of select and of simulate
    path,               \* the local `path` of select, rollout and backpropagate
    invert_reward,      \* the local of simulate
    reward,             \* the local `reward` of rollout: what simulate returned
    bp_reward,          \* the local `reward` of backpropagate
    idx,                \* the position of backpropagate's loop in path
    result,             \* what the last call returned or raised, until the next call
    rollouts,           \* history: the number of completed rollout calls
    roots,              \* history: the arguments of the rollout calls made
    steps,              \* history: the find_random_child calls of the running simulate
    before              \* history: the argument of the running rollout, and Q, N and
                        \* children when it was called

vars == <<find_children, node_reward, iteration, exploration_weight, Q, N, children,
          pc, node, path, invert_reward, reward, bp_reward, idx, result,
          rollouts, roots, steps, before>>

game == <<find_children, node_reward, iteration, exploration_weight>>
locals == <<node, path, invert_reward, reward, bp_reward, idx, steps, before>>

----------------------------------------------------------------------------
(* The games played: each a tuple giving the successors of states 1..n.    *)

\* a tree: 2 has the two terminal successors 3 and 4
TreeGame == <<{2}, {3, 4}, {}, {}>>
\* a graph with a transposition: 4 is reached through 2 and through 3
DagGame == <<{2, 3}, {4}, {4, 5}, {}, {}>>
\* a graph with a move cycle 1 -> 2 -> 1
CycleGame == <<{2, 3}, {1}, {}>>

Games == {TreeGame, DagGame, CycleGame}

Rewards == {0, 1, One}

ExplorationWeights == {1, 2}

Iterations == {"ascending", "descending"}

States == DOMAIN find_children

\* Node.is_terminal: "Returns True if the node has no children"
is_terminal(n) == find_children[n] = {}

\* One game, with a reward for each of its terminal states.
IsGame(fc, rw) ==
    /\ fc \in Games
    /\ rw \in [DOMAIN fc -> Rewards]
    /\ \A s \in DOMAIN fc : fc[s] # {} => rw[s] = 0

----------------------------------------------------------------------------
(* defaultdict(int)                                                        *)

\* m[k] read for its value: the default is 0
Get(m, k) == IF k \in DOMAIN m THEN m[k] ELSE 0

\* a defaultdict whose default is 1
Touch_default_one(m, S) == [k \in DOMAIN m \cup S |-> IF k \in DOMAIN m THEN m[k] ELSE 1]

\* the map after m[k] was read for every k in S: a missing key is inserted
Touch(m, S) == [k \in DOMAIN m \cup S |-> Get(m, k)]

\* the map after m[k] += v
Add(m, k, v) == [j \in DOMAIN m \cup {k} |-> IF j = k THEN Get(m, j) + v ELSE m[j]]

NoResult == [call |-> "none", arg |-> 0, raised |-> FALSE, value |-> 0]

\* the value of `before` while no rollout is running
NoSnapshot == [root |-> 0, Q |-> << >>, N |-> << >>, children |-> << >>]

----------------------------------------------------------------------------
(* max(iterable, key=...): the first element, in iteration order, that no  *)
(* other element beats.                                                    *)

\* a comes before b when the set holding both is iterated
Before(a, b) == IF iteration = "ascending" THEN a < b ELSE a > b

\* greater is the set of the pairs <<a, b>> with key(a) > key(b)
Max(S, greater) ==
    CHOOSE c \in S :
        /\ \A d \in S : <<d, c>> \notin greater
        /\ \A d \in S \ {c} : <<c, d>> \notin greater => Before(c, d)

----------------------------------------------------------------------------
(* MCTS.__init__                                                           *)

Init ==
    /\ IsGame(find_children, node_reward)
    /\ iteration \in Iterations
    /\ exploration_weight \in ExplorationWeights
    /\ Q = << >>
    /\ N = << >>
    /\ children = << >>
    /\ pc = "idle"
    /\ node = 0
    /\ path = << >>
    /\ invert_reward = TRUE
    /\ reward = 0
    /\ bp_reward = 0
    /\ idx = 0
    /\ result = NoResult
    /\ rollouts = 0
    /\ roots = {}
    /\ steps = 0
    /\ before = NoSnapshot

----------------------------------------------------------------------------
(* MCTS.choose                                                             *)

\* score_greater with a node never visited scored +inf instead of -inf
score_greater_unseen_first(a, b) ==
    /\ Get(N, b) # 0
    /\ \/ Get(N, a) = 0
       \/ Get(Q, a) * Get(N, b) > Get(Q, b) * Get(N, a)

\* score(a) > score(b), score being -inf at N = 0 and Q / N otherwise
score_greater(a, b) ==
    /\ Get(N, a) # 0
    /\ \/ Get(N, b) = 0
       \/ Get(Q, a) * Get(N, b) > Get(Q, b) * Get(N, a)

\* max(self.children[s], key=score)
best_child(s) ==
    Max(children[s], {p \in children[s] \X children[s] : score_greater(p[1], p[2])})

\* choose looking the node up in self.children before asking is_terminal
choose_lookup_first(s) ==
    /\ pc = "idle"
    /\ IF s \notin DOMAIN children
       THEN /\ \E c \in find_children[s] \cup (IF is_terminal(s) THEN {0} ELSE {}) :
                 result' = [call |-> "choose", arg |-> s, raised |-> FALSE, value |-> c]
            /\ N' = N
       ELSE IF is_terminal(s)
       THEN /\ result' = [call |-> "choose", arg |-> s, raised |-> TRUE, value |-> 0]
            /\ N' = N
       ELSE /\ result' = [call |-> "choose", arg |-> s, raised |-> FALSE,
                          value |-> best_child(s)]
            /\ N' = Touch(N, children[s])
    /\ UNCHANGED <<game, Q, children, pc, locals, rollouts, roots>>

\* choose without the fallback: self.children[node] raises KeyError
choose_no_fallback(s) ==
    /\ pc = "idle"
    /\ IF is_terminal(s) \/ s \notin DOMAIN children
       THEN /\ result' = [call |-> "choose", arg |-> s, raised |-> TRUE, value |-> 0]
            /\ N' = N
       ELSE /\ result' = [call |-> "choose", arg |-> s, raised |-> FALSE,
                          value |-> best_child(s)]
            /\ N' = Touch(N, children[s])
    /\ UNCHANGED <<game, Q, children, pc, locals, rollouts, roots>>

choose(s) ==
    /\ pc = "idle"
    /\ IF is_terminal(s)
       THEN /\ result' = [call |-> "choose", arg |-> s, raised |-> TRUE, value |-> 0]
            /\ N' = N
       ELSE IF s \notin DOMAIN children
       THEN /\ \E c \in find_children[s] :
                 result' = [call |-> "choose", arg |-> s, raised |-> FALSE, value |-> c]
            /\ N' = N
       ELSE /\ result' = [call |-> "choose", arg |-> s, raised |-> FALSE,
                          value |-> best_child(s)]
            /\ N' = Touch(N, children[s])
    /\ UNCHANGED <<game, Q, children, pc, locals, rollouts, roots>>

----------------------------------------------------------------------------
(* MCTS.uct_select                                                         *)

\* The unit of the fixed-point numbers of SqrtLog.
Scale == 100000

\* SqrtLog[n][m] is math.sqrt(math.log(n) / m) in units of 1 / Scale, rounded.
SqrtLog ==
    << <<0, 0, 0, 0, 0, 0, 0, 0>>,
       <<83255, 58871, 48068, 41628, 37233, 33989, 31468, 29435>>,
       <<104815, 74115, 60515, 52407, 46875, 42790, 39616, 37058>>,
       <<117741, 83255, 67978, 58871, 52655, 48068, 44502, 41628>>,
       <<126864, 89706, 73245, 63432, 56735, 51792, 47950, 44853>>,
       <<133857, 94651, 77282, 66928, 59863, 54647, 50593, 47325>>,
       <<139496, 98638, 80538, 69748, 62384, 56949, 52724, 49319>>,
       <<144203, 101967, 83255, 72101, 64489, 58871, 54503, 50983>> >>

\* uct(a) > uct(b) for two children of parent, both sides multiplied by
\* One * N[a] * N[b] * Scale
uct_greater(parent, a, b) ==
    LET vertex(c) == exploration_weight * SqrtLog[N[parent]][N[c]] * One * N[a] * N[b]
    IN  Q[a] * N[b] * Scale + vertex(a) > Q[b] * N[a] * Scale + vertex(b)

\* the assertion fails, math.log is given 0, or a division is by 0
uct_raises(n) ==
    \/ \E c \in children[n] : c \notin DOMAIN children
    \/ Get(N, n) = 0
    \/ \E c \in children[n] : Get(N, c) = 0

uct_select(n) ==
    Max(children[n], {p \in children[n] \X children[n] : uct_greater(n, p[1], p[2])})

----------------------------------------------------------------------------
(* MCTS.rollout, MCTS.select, MCTS.expand, MCTS.simulate, MCTS.backpropagate *)

\* rollout is called and calls select, whose path is empty
rollout(r) ==
    /\ pc = "idle"
    /\ rollouts < MaxRollouts
    /\ pc' = "select"
    /\ node' = r
    /\ path' = << >>
    /\ result' = NoResult
    /\ roots' = roots \cup {r}
    /\ before' = [root |-> r, Q |-> Q, N |-> N, children |-> children]
    /\ UNCHANGED <<game, Q, N, children, invert_reward, reward, bp_reward, idx, rollouts,
                   steps>>

\* unexplored without the keys of self.children taken away
unexplored_any(n) == children[n]

\* unexplored taken against the keys of self.N instead of self.children
unexplored_by_visits(n) == children[n] \ DOMAIN N

\* children[n] - children.keys()
unexplored(n) == children[n] \ DOMAIN children

\* the element popped from self.children[n] itself
children_after_pop_in_place(n, c) == [children EXCEPT ![n] = @ \ {c}]

\* self.children once an element was popped from the set `unexplored`, which
\* is a set of its own
children_after_pop(n, c) == children

\* one iteration of select's loop
select ==
    /\ pc = "select"
    /\ Len(path) < MaxPath
    /\ result' = NoResult
    /\ IF node \notin DOMAIN children \/ children[node] = {}
       THEN /\ path' = Append(path, node)
            /\ pc' = "expand"
            /\ UNCHANGED <<node, Q, N, children>>
       ELSE IF unexplored(node) # {}
       THEN /\ \E n \in unexplored(node) :
                 /\ path' = Append(Append(path, node), n)
                 /\ children' = children_after_pop(node, n)
            /\ pc' = "expand"
            /\ UNCHANGED <<node, Q, N>>
       ELSE IF uct_raises(node)
       THEN /\ result' = [call |-> "rollout", arg |-> path[1], raised |-> TRUE, value |-> 0]
            /\ pc' = "idle"
            /\ node' = 0
            /\ path' = << >>
            /\ N' = Touch(N, {node})
            /\ UNCHANGED <<Q, children>>
       ELSE /\ path' = Append(path, node)
            /\ node' = uct_select(node)
            /\ pc' = "select"
            /\ UNCHANGED <<Q, N, children>>
    /\ UNCHANGED <<game, invert_reward, reward, bp_reward, idx, rollouts, roots, steps,
                   before>>

\* leaf = path[-1]
leaf == path[Len(path)]

\* expand with its test the wrong way round
expanded_inverted(n) ==
    IF n \notin DOMAIN children
    THEN children
    ELSE [k \in DOMAIN children \cup {n} |->
              IF k = n THEN find_children[n] ELSE children[k]]

\* expand assigning a new dict to self.children instead of one item
expanded_replacing(n) ==
    IF n \in DOMAIN children
    THEN children
    ELSE [k \in {n} |-> find_children[n]]

\* self.children after expand(n)
expanded(n) ==
    IF n \in DOMAIN children
    THEN children
    ELSE [k \in DOMAIN children \cup {n} |->
              IF k = n THEN find_children[n] ELSE children[k]]

\* rollout calls expand(leaf) and then simulate(leaf)
expand ==
    /\ pc = "expand"
    /\ children' = expanded(leaf)
    /\ node' = leaf
    /\ invert_reward' = TRUE
    /\ steps' = 0
    /\ pc' = "simulate"
    /\ UNCHANGED <<game, Q, N, path, reward, bp_reward, idx, result, rollouts, roots,
                   before>>

\* simulate returning the reward as it is
simulate_return_raw(r, invert) == r

\* simulate with invert_reward starting False
simulate_return_uninverted(r, invert) == IF invert THEN r ELSE One - r

\* what simulate returns at a terminal node of reward r
simulate_return(r, invert) == IF invert THEN One - r ELSE r

\* one iteration of simulate's loop; its return value goes to backpropagate
simulate ==
    /\ pc = "simulate"
    /\ IF is_terminal(node)
       THEN /\ reward' = simulate_return(node_reward[node], invert_reward)
            /\ bp_reward' = simulate_return(node_reward[node], invert_reward)
            /\ idx' = Len(path)
            /\ pc' = "backpropagate"
            /\ UNCHANGED <<node, invert_reward, steps>>
       ELSE /\ steps < MaxSteps
            /\ \E c \in find_children[node] : node' = c
            /\ invert_reward' = ~invert_reward
            /\ steps' = steps + 1
            /\ UNCHANGED <<reward, bp_reward, idx, pc>>
    /\ UNCHANGED <<game, Q, N, children, path, result, rollouts, roots, before>>

\* the reward negated instead of taken from 1
flip_negated(r) == 0 - r

\* backpropagate without the flip
flip_none(r) == r

\* the reward of the next node up the path
flip(r) == One - r

\* self.N[n] += 2
visited_twice(n) == Add(N, n, 2)

\* self.N[n] += 1 only at the first visit of n
visited_once(n) == IF n \in DOMAIN N THEN N ELSE Add(N, n, 1)

\* self.N after self.N[n] += 1
visited(n) == Add(N, n, 1)

\* one iteration of backpropagate's loop over reversed(path); after the
\* last one rollout returns
backpropagate ==
    /\ pc = "backpropagate"
    /\ N' = visited(path[idx])
    /\ Q' = Add(Q, path[idx], bp_reward)
    /\ IF idx > 1
       THEN /\ bp_reward' = flip(bp_reward)
            /\ idx' = idx - 1
            /\ UNCHANGED <<pc, node, path, invert_reward, reward, rollouts, steps, before>>
       ELSE /\ pc' = "idle"
            /\ rollouts' = rollouts + 1
            /\ node' = 0
            /\ path' = << >>
            /\ invert_reward' = TRUE
            /\ reward' = 0
            /\ bp_reward' = 0
            /\ idx' = 0
            /\ steps' = 0
            /\ before' = NoSnapshot
    /\ UNCHANGED <<game, children, result, roots>>

----------------------------------------------------------------------------

Next ==
    \/ \E s \in States : choose(s)
    \/ \E r \in States : rollout(r)
    \/ select
    \/ expand
    \/ simulate
    \/ backpropagate

Spec == Init /\ [][Next]_vars

----------------------------------------------------------------------------
(* The properties.  `result` holds what the call just made returned, so a  *)
(* state with result.call = "choose" is the state right after that call.   *)

Chose(s) == result.call = "choose" /\ result.arg = s

\* C1: with every rollout so far called on the one state r, once k calls
\* have completed the visit count of r is exactly k.
C1_RootVisits ==
    \A r \in States :
        (pc = "idle" /\ roots \subseteq {r}) => Get(N, r) = rollouts

C1_Witness ==
    \E r \in States :
        /\ pc = "idle" /\ roots = {r} /\ rollouts >= 3 /\ Get(N, r) = rollouts
        /\ \E c \in States \ {r} : Get(N, c) >= 2

\* every child of s is terminal and visited, and only s was rolled out
AllChildrenTerminalAndVisited(s) ==
    /\ roots = {s}
    /\ s \in DOMAIN children
    /\ \A c \in find_children[s] : is_terminal(c) /\ Get(N, c) >= 1

\* C2 as claimed: when every child of s is terminal and visited, W is the
\* child of reward 1 and every other child has a reward below 1, choose(s)
\* returns W.
C2_ChoosesRewardOne ==
    \A s \in States : \A W \in find_children[s] :
        ( /\ Chose(s)
          /\ AllChildrenTerminalAndVisited(s)
          /\ node_reward[W] = One
          /\ \A c \in find_children[s] \ {W} : node_reward[c] < One )
        => result.value = W

\* C2 as amended: when every child of s is terminal and visited, W is the
\* child of reward 0 and every other child has a reward above 0, choose(s)
\* returns W: reward() is the outcome for the player to move at the
\* terminal node, so the move into W wins when reward() is 0 there.
C2_ChoosesRewardZero ==
    \A s \in States : \A W \in find_children[s] :
        ( /\ Chose(s)
          /\ AllChildrenTerminalAndVisited(s)
          /\ node_reward[W] = 0
          /\ \A c \in find_children[s] \ {W} : node_reward[c] > 0 )
        => result.value = W

C2_Witness ==
    \E s \in States : \E W \in find_children[s] :
        /\ Chose(s)
        /\ AllChildrenTerminalAndVisited(s)
        /\ Cardinality(find_children[s]) >= 2
        /\ node_reward[W] = 0
        /\ \A c \in find_children[s] \ {W} : node_reward[c] > 0
        /\ result.value = W

\* C3: choose on a terminal state raises and returns no state, whether or
\* not the state was expanded or visited.
C3_ChooseTerminalRaises ==
    \A s \in States :
        (Chose(s) /\ is_terminal(s)) => (result.raised /\ result.value = 0)

C3_Witness ==
    \E s \in States :
        /\ Chose(s) /\ is_terminal(s) /\ result.raised
        /\ s \in DOMAIN children /\ Get(N, s) >= 1

\* C4: choose on a non-terminal state that is no key of self.children
\* raises nothing and returns one of the state's successors.
C4_ColdStart ==
    \A s \in States :
        (Chose(s) /\ ~is_terminal(s) /\ s \notin DOMAIN children)
        => (~result.raised /\ result.value \in find_children[s])

C4_Witness ==
    \E s \in States :
        /\ Chose(s) /\ ~is_terminal(s) /\ s \notin DOMAIN children
        /\ DOMAIN children # {}
        /\ result.value \in find_children[s]

\* C5: choose on a non-terminal expanded state returns a recorded child
\* whose mean reward Q / N no visited child exceeds, and returns a child
\* never visited only when no child was visited.
C5_BestMean ==
    \A s \in States :
        (Chose(s) /\ ~is_terminal(s) /\ s \in DOMAIN children)
        => LET c == result.value
           IN  /\ ~result.raised
               /\ c \in children[s]
               /\ \A d \in children[s] :
                      Get(N, d) > 0 =>
                          /\ Get(N, c) > 0
                          /\ Get(Q, d) * Get(N, c) <= Get(Q, c) * Get(N, d)

C5_Witness ==
    \E s \in States :
        /\ Chose(s) /\ s \in DOMAIN children
        /\ Get(N, result.value) > 0
        /\ \E d \in children[s] :
               /\ Get(N, d) > 0
               /\ Get(Q, d) * Get(N, result.value) < Get(Q, result.value) * Get(N, d)

\* C6: the set recorded for a key of self.children is the same after every
\* step: no expand, select, rollout or choose alters or removes it.
C6_ChildrenFixed ==
    [][\A s \in DOMAIN children :
           s \in DOMAIN children' /\ children'[s] = children[s]]_vars

\* expand has just run on a leaf that was visited, hence expanded, before
C6_Witness ==
    /\ pc = "simulate" /\ node = leaf /\ invert_reward
    /\ Get(N, leaf) >= 1
    /\ children[leaf] = find_children[leaf]
    /\ \E p \in DOMAIN children : unexplored(p) # {}

\* C7: the step of backpropagate at the state i places above the leaf adds
\* r to its Q when i is even and 1 - r when i is odd, r being what simulate
\* returned; what it adds and what the next step adds sum to 1.
C7_AlternatingReward ==
    [][pc = "backpropagate" =>
           LET s == path[idx]
               i == Len(path) - idx
           IN  /\ Get(Q', s) - Get(Q, s) = IF i % 2 = 0 THEN reward ELSE One - reward
               /\ Get(Q', s) - Get(Q, s) = bp_reward
               /\ idx > 1 => bp_reward + bp_reward' = One]_vars

C7_Witness ==
    /\ pc = "backpropagate" /\ Len(path) >= 3 /\ idx = 1
    /\ reward = One /\ bp_reward = One
    /\ Get(Q, path[2]) >= 0 /\ Get(N, path[2]) >= 1

\* the place of s in the order Unseen (0), Known (1), Expanded (2)
Stage(ch, s) ==
    IF s \in DOMAIN ch THEN 2
    ELSE IF \E p \in DOMAIN ch : s \in ch[p] THEN 1
    ELSE 0

\* C8: the three maps are empty at construction, and from then on no key
\* leaves any of them, no visit count decreases and no state goes back in
\* the order Unseen, Known, Expanded.
C8_MapsOnlyGrow ==
    /\ (DOMAIN Q = {} /\ DOMAIN N = {} /\ DOMAIN children = {})
    /\ [][/\ DOMAIN children \subseteq DOMAIN children'
          /\ DOMAIN N \subseteq DOMAIN N'
          /\ DOMAIN Q \subseteq DOMAIN Q'
          /\ \A s \in States :
                 /\ Get(N', s) >= Get(N, s)
                 /\ Stage(children', s) >= Stage(children, s)]_vars

C8_Witness ==
    /\ \E s \in States : Stage(children, s) = 1
    /\ \E s \in States : Stage(children, s) = 2 /\ Get(N, s) >= 2
    /\ \E s \in DOMAIN N : N[s] = 0

\* select is about to call uct_select(node)
AtUctSelect ==
    /\ pc = "select"
    /\ node \in DOMAIN children
    /\ children[node] # {}
    /\ unexplored(node) = {}

\* C10: whenever select calls uct_select(node), node was visited and every
\* recorded child of node is a key of self.children and was visited, so
\* that uct_select raises nothing.
C10_UctPrecondition ==
    /\ AtUctSelect =>
           /\ Get(N, node) >= 1
           /\ \A c \in children[node] : c \in DOMAIN children /\ Get(N, c) >= 1
           /\ ~uct_raises(node)
    /\ ~(result.call = "rollout" /\ result.raised)

C10_Witness ==
    /\ AtUctSelect
    /\ Len(path) >= 1
    /\ Cardinality(children[node]) >= 2
    /\ \E c \in children[node] : Get(N, c) >= 2

\* C11: the path select returns starts with the root, each later state is
\* a recorded child of the state before it, every state but the last is
\* expanded with children, and the last is no key of self.children or a key
\* whose set is empty.
C11_SelectedPath ==
    pc = "expand" =>
        /\ Len(path) >= 1
        /\ path[1] = before.root
        /\ \A i \in 2..Len(path) : path[i] \in children[path[i - 1]]
        /\ \A i \in 1..(Len(path) - 1) :
               path[i] \in DOMAIN children /\ children[path[i]] # {}
        /\ leaf \notin DOMAIN children \/ children[leaf] = {}

C11_Witness ==
    /\ pc = "expand" /\ Len(path) >= 3
    /\ leaf \in DOMAIN children /\ children[leaf] = {}
    /\ path[1] = before.root

\* C12: simulate returns 1 - r after an even number of find_random_child
\* steps and r after an odd number, r being the reward of the terminal state
\* reached; the value is between 0 and 1.
C12_SimulateReturn ==
    pc = "backpropagate" =>
        /\ is_terminal(node)
        /\ reward = IF steps % 2 = 0 THEN One - node_reward[node] ELSE node_reward[node]
        /\ reward \in 0..One

C12_Witness ==
    /\ pc = "backpropagate" /\ steps = 3
    /\ node_reward[node] = One /\ reward = One

\* C13: select returns.  Nothing select reads changes while it runs, so it
\* returns exactly when it never comes to a state that its path already
\* holds: from such a state it would make the same choices again, for ever.
C13_SelectReturns ==
    pc = "select" => \A i \in 1..Len(path) : path[i] # node

\* the number of places of the path that hold s
Occurrences(s) == Cardinality({i \in 1..Len(path) : path[i] = s})

\* C14: a rollout leaves N and Q of the states off its path as they were and
\* raises N of a state on the path by one for each of its places there.
C14_RolloutFrame ==
    [][(pc = "backpropagate" /\ idx = 1) =>
           \A s \in States :
               /\ Get(N', s) = Get(before.N, s) + Occurrences(s)
               /\ Occurrences(s) = 0 => Get(Q', s) = Get(before.Q, s)]_vars

C14_Witness ==
    /\ pc = "backpropagate" /\ idx = 1 /\ Len(path) >= 2
    /\ \E s \in States : Occurrences(s) = 0 /\ Get(before.N, s) >= 1
    /\ Get(N, leaf) = Get(before.N, leaf) + 1

\* C15: a rollout adds to self.children the leaf when it was no key and
\* nothing when it was one, its set then being empty; N of the leaf is
\* raised in both cases.
C15_OneKeyPerRollout ==
    [][(pc = "backpropagate" /\ idx = 1) =>
           /\ children' = children
           /\ DOMAIN children = DOMAIN before.children \cup {leaf}
           /\ Cardinality(DOMAIN children \ DOMAIN before.children) <= 1
           /\ leaf \in DOMAIN before.children => before.children[leaf] = {}
           /\ \A k \in DOMAIN before.children : children[k] = before.children[k]
           /\ Get(N', leaf) = Get(before.N, leaf) + 1]_vars

C15_Witness ==
    /\ pc = "backpropagate" /\ idx = 1 /\ Len(path) >= 2
    /\ leaf \in DOMAIN before.children
    /\ DOMAIN children = DOMAIN before.children

\* C16: between rollouts the keys of self.children are the states of visit
\* count 1 or more.
C16_ExpandedIffVisited ==
    pc = "idle" => DOMAIN children = {s \in States : Get(N, s) >= 1}

C16_Witness ==
    /\ pc = "idle" /\ rollouts >= 2 /\ Cardinality(roots) >= 2
    /\ \E s \in DOMAIN N : N[s] = 0
    /\ \E s \in DOMAIN children : Get(N, s) >= 2

\* C17: Q of every state is between 0 and its N, so that every mean reward
\* is between 0 and 1.
C17_MeanInUnitInterval ==
    \A s \in States : 0 <= Get(Q, s) /\ Get(Q, s) <= One * Get(N, s)

C17_Witness ==
    /\ \E s \in States : Get(N, s) >= 2 /\ Get(Q, s) = One * Get(N, s)
    /\ \E s \in States : Get(N, s) >= 2 /\ Get(Q, s) = 0

\* the visit counts of the states of S, added up
RECURSIVE SumN(_)
SumN(S) ==
    IF S = {} THEN 0
    ELSE LET c == CHOOSE x \in S : TRUE
         IN  Get(N, c) + SumN(S \ {c})

\* C18: on the tree, with every rollout called on one root, after each
\* rollout N of an expanded state with children is 1 plus the N of its
\* recorded children added up.
C18_TreeVisitSum ==
    (find_children = TreeGame /\ pc = "idle" /\ Cardinality(roots) <= 1) =>
        \A s \in DOMAIN children :
            children[s] # {} => Get(N, s) = 1 + SumN(children[s])

C18_Witness ==
    /\ find_children = TreeGame /\ pc = "idle" /\ roots = {1}
    /\ Get(N, 2) = 3 /\ Get(N, 3) = 1 /\ Get(N, 4) = 1

\* C19: choose, whether it raises, falls back or returns the best child,
\* leaves self.children and self.Q as they are and the visit count of every
\* state, read with the default 0, as it was.
C19_ChooseFrame ==
    [][(pc = "idle" /\ pc' = "idle") =>
           /\ result'.call = "choose"
           /\ children' = children
           /\ Q' = Q
           /\ \A s \in States : Get(N', s) = Get(N, s) /\ Get(Q', s) = Get(Q, s)]_vars

C19_Witness ==
    /\ result.call = "choose" /\ ~result.raised
    /\ result.arg \in DOMAIN children
    /\ \E s \in children[result.arg] : s \in DOMAIN N /\ N[s] = 0
    /\ \E s \in children[result.arg] : Get(N, s) >= 1

====
